---- MODULE Spec2Model ----
(***************************************************************************)
(* A model of jaxns' special priors (framework/special_priors.py) and of   *)
(* the namedtuple serialisation bridge (internals/namedtuple_utils.py).    *)
(*                                                                         *)
(* The module holds one specification per component; each draws the        *)
(* component's inputs from bounded sets in its Init and applies the        *)
(* component's operations as actions:                                      *)
(*   SpecSer      serialise_namedtuple / deserialise_namedtuple            *)
(***************************************************************************)
EXTENDS Integers, Sequences, FiniteSets, TLC

VARIABLES
    obj,        \* serialisation: the Python value handed to serialise_namedtuple
    ser,        \* serialisation: the serialised tree
    out,        \* serialisation: what deserialise_namedtuple returned (or raised)
    pcS,        \* serialisation: "start" | "serialised" | "deserialised"
    fi,         \* ForcedIdentifiability: the object's fields n, low, high, fix_left, fix_right
    fiArgs,     \* ForcedIdentifiability: the arguments the constructor was called with
    pcF,        \* ForcedIdentifiability: "new" | "built" | "ValueError"
    fiU,        \* ForcedIdentifiability: the argument of the last forward
    fiX,        \* ForcedIdentifiability: what the last forward returned
    fiInv,      \* ForcedIdentifiability: what inverse returned for fiX
    fiLpX,      \* ForcedIdentifiability: the argument of the last log_prob
    fiLp,       \* ForcedIdentifiability: what the last log_prob returned
    fiDone,     \* ForcedIdentifiability: which of forward, inverse, log_prob have returned
    pcP,        \* wrappers: "new" | "Bernoulli" | "Categorical" | "Beta", the class built
    bern,       \* Bernoulli: the probs parameter of self.dist, over Den
    catArgs,    \* Categorical: the arguments the constructor was called with
    catg,       \* Categorical: _parametrisation and the probs of self.dist, one row per batch element
    beta,       \* Beta: the concentrations given and the class of self.dist
    pU,         \* wrappers: the argument of the last forward
    pX,         \* wrappers: what the last forward returned
    pInv,       \* wrappers: what inverse returned for pX
    pErr,       \* wrappers: the exception inverse raised, or "none"
    pDone,      \* wrappers: which of forward, inverse have returned or raised
    pcQ,        \* Poisson bisection: "new" | "scan" | "done" | "ValueError"
    pqIn,       \* Poisson bisection: the call's inputs: U, the size of rate, and smooth_cdf
    pqX,        \* Poisson bisection: the scan's carry (a, b, f_a, f_b)
    pqI,        \* Poisson bisection: the number of scan iterations done
    pqResults,  \* Poisson bisection: x_results, the midpoint after each iteration
    pqTrace,    \* Poisson bisection: for each iteration done, whether it doubled or bisected
    pqC         \* Poisson bisection: the returned c

serVars == <<obj, ser, out, pcS>>
fiVars == <<fi, fiArgs, pcF, fiU, fiX, fiInv, fiLpX, fiLp, fiDone>>
prVars == <<pcP, bern, catArgs, catg, beta, pU, pX, pInv, pErr, pDone>>
pqVars == <<pcQ, pqIn, pqX, pqI, pqResults, pqTrace, pqC>>
vars == <<serVars, fiVars, prVars, pqVars>>

(***************************************************************************)
(* Bounds of the model.                                                    *)
(***************************************************************************)
\* Longest list / tuple drawn as an input of the serialisation bridge.
MaxLen == 2
\* Largest n a ForcedIdentifiability is built with.
MaxN == 3
\* low and high are drawn from 0..MaxV.
MaxV == 2
\* The uniform at position k is drawn from { 2^(-a*k) : a \in 0..MaxA }.
MaxA == 2
\* Probabilities and the uniforms of the wrappers are multiples of 1/Den.
Den == 4
\* The number of categories of a Categorical.
NCat == 3
\* The quantiles the Poisson bisection looks for are (2k-1) * 2^e, k in 1..MaxMant.
MaxMant == 3

(***************************************************************************)
(* Small helpers.                                                          *)
(***************************************************************************)
RECURSIVE SeqProd(_)
SeqProd(s) == IF s = <<>> THEN 1 ELSE Head(s) * SeqProd(Tail(s))

RECURSIVE Concat(_)
Concat(ss) == IF ss = <<>> THEN <<>> ELSE Head(ss) \o Concat(Tail(ss))

Last(s) == s[Len(s)]
Front(s) == SubSeq(s, 1, Len(s) - 1)
None == <<"none">>

(***************************************************************************)
(* Python values.  A value is a tagged tuple:                              *)
(*   <<"int", v>> <<"float", v>>      scalars                              *)
(*   <<"str", parts>>                 a str, as its dot-separated parts    *)
(*   <<"ndarray", dtype, shape, data>> a numpy array, data in row order    *)
(*   <<"list", items>> <<"tuple", items>>                                  *)
(*   <<"dict", f>>                    f maps keys to values                *)
(*   <<"namedtuple", cls, f>>         cls = <<module parts, name>>,        *)
(*                                    f maps field names to values         *)
(*   <<"raise", kind>>                an exception leaving the call        *)
(***************************************************************************)
PyInt(v) == <<"int", v>>
PyFloat(v) == <<"float", v>>
PyStr(parts) == <<"str", parts>>
NdArray(dtype, shape, data) == <<"ndarray", dtype, shape, data>>
PyList(items) == <<"list", items>>
PyTuple(items) == <<"tuple", items>>
PyDict(f) == <<"dict", f>>
NamedTuple(cls, f) == <<"namedtuple", cls, f>>
Raise(kind) == <<"raise", kind>>

IsRaise(v) == v[1] = "raise"

\* The first exception among the values of a sequence, or None.
RECURSIVE FirstRaise(_)
FirstRaise(items) ==
    IF items = <<>> THEN None
    ELSE IF IsRaise(Head(items)) THEN Head(items)
    ELSE FirstRaise(Tail(items))

\* The values of a map, in some fixed order of its keys.
RECURSIVE MapValues(_)
MapValues(f) ==
    IF DOMAIN f = {} THEN <<>>
    ELSE LET k == CHOOSE k \in DOMAIN f : TRUE
         IN <<f[k]>> \o MapValues([j \in DOMAIN f \ {k} |-> f[j]])

\* The classes importlib and getattr can find: module-level classes.
Registry == { <<<<"jaxns", "types">>, "Point">> }

isinstance_namedtuple(o) == o[1] = "namedtuple"

\* ndarray.tolist(): nested lists of Python scalars, a bare scalar for shape ().
RECURSIVE tolist(_, _, _)
tolist(dtype, shape, data) ==
    IF shape = <<>>
    THEN (IF dtype = "int64" THEN PyInt(data[1]) ELSE PyFloat(data[1]))
    ELSE LET n == Head(shape)
             sz == SeqProd(Tail(shape))
         IN PyList([i \in 1..n |->
                tolist(dtype, Tail(shape), SubSeq(data, (i - 1) * sz + 1, i * sz))])

serialise_ndarray(o) ==
    IF o[1] = "ndarray"
    THEN PyDict(("type" :> PyStr(<<"__ndarray__">>))
                @@ ("__dtype__" :> PyStr(<<o[2]>>))
                @@ ("__data__" :> tolist(o[2], o[3], o[4])))
    ELSE o

RECURSIVE serialise_namedtuple(_)
serialise_namedtuple(o) ==
    IF isinstance_namedtuple(o)
    THEN PyDict(("type" :> PyStr(<<"__namedtuple__">>))
                @@ ("__class__" :> PyStr(o[2][1] \o <<o[2][2]>>))
                @@ ("__data__" :>
                      PyDict([k \in DOMAIN o[3] |-> serialise_namedtuple(o[3][k])])))
    ELSE IF o[1] = "ndarray" THEN serialise_ndarray(o)
    ELSE IF o[1] \in {"list", "tuple"}
    THEN PyList([i \in 1..Len(o[2]) |-> serialise_namedtuple(o[2][i])])
    ELSE IF o[1] = "dict"
    THEN PyDict([k \in DOMAIN o[2] |-> serialise_namedtuple(o[2][k])])
    ELSE o

\* numpy.array(nested, dtype): the shape is read off the nesting.
RECURSIVE np_shape(_)
np_shape(x) ==
    IF x[1] # "list" THEN <<>>
    ELSE IF x[2] = <<>> THEN <<0>>
    ELSE <<Len(x[2])>> \o np_shape(x[2][1])

RECURSIVE np_flat(_)
np_flat(x) ==
    IF x[1] # "list" THEN <<x[2]>>
    ELSE Concat([i \in 1..Len(x[2]) |-> np_flat(x[2][i])])

deserialise_ndarray(o) ==
    IF o[1] = "dict" /\ "type" \in DOMAIN o[2] /\ o[2]["type"] = PyStr(<<"__ndarray__">>)
    THEN NdArray(o[2]["__dtype__"][2][1], np_shape(o[2]["__data__"]),
                 np_flat(o[2]["__data__"]))
    ELSE o

RECURSIVE deserialise_namedtuple(_)
deserialise_namedtuple(o) ==
    IF o[1] = "dict" /\ "type" \in DOMAIN o[2] /\ o[2]["type"] = PyStr(<<"__namedtuple__">>)
    THEN LET class_path == o[2]["__class__"][2]
             module_name == Front(class_path)
             class_name == Last(class_path)
             data == o[2]["__data__"][2]
             kwargs == [k \in DOMAIN data |-> deserialise_namedtuple(data[k])]
         IN IF <<module_name, class_name>> \notin Registry
            THEN Raise("AttributeError")
            ELSE IF FirstRaise(MapValues(kwargs)) # None
            THEN FirstRaise(MapValues(kwargs))
            ELSE NamedTuple(<<module_name, class_name>>, kwargs)
    ELSE IF o[1] = "dict" /\ "type" \in DOMAIN o[2] /\ o[2]["type"] = PyStr(<<"__ndarray__">>)
    THEN deserialise_ndarray(o)
    ELSE IF o[1] \in {"list", "tuple"}
    THEN LET items == [i \in 1..Len(o[2]) |-> deserialise_namedtuple(o[2][i])]
         IN IF FirstRaise(items) # None THEN FirstRaise(items) ELSE PyList(items)
    ELSE IF o[1] = "dict"
    THEN LET d == [k \in DOMAIN o[2] |-> deserialise_namedtuple(o[2][k])]
         IN IF FirstRaise(MapValues(d)) # None THEN FirstRaise(MapValues(d)) ELSE PyDict(d)
    ELSE o

(***************************************************************************)
(* The inputs of the serialisation bridge: leaves, containers of leaves,   *)
(* and containers of those.                                                *)
(***************************************************************************)
PointCls == <<<<"jaxns", "types">>, "Point">>
\* A class defined inside a function: it has a module and a name, and the
\* module has no attribute of that name.
LocalCls == <<<<"jaxns", "types">>, "Local">>

Shapes == { <<>>, <<MaxLen>>, <<0>>, <<1, MaxLen>>, <<0, MaxLen>>, <<MaxLen, 0>> }

ArrayOf(dtype, shape) == NdArray(dtype, shape, [i \in 1..SeqProd(shape) |-> i])

Arrays == { ArrayOf("int64", s) : s \in Shapes } \cup { ArrayOf("float32", <<MaxLen>>) }

Leaves == { PyInt(1), PyStr(<<"a">>) } \cup Arrays

SeqsOver(S) == UNION { [1..n -> S] : n \in 0..MaxLen }

MapsOver(K, S) == UNION { [D -> S] : D \in SUBSET K }

Containers(S) ==
    { PyList(s) : s \in SeqsOver(S) }
    \cup { PyTuple(s) : s \in SeqsOver(S) }
    \cup { PyDict(f) : f \in MapsOver({"a", "type"}, S) }
    \cup { NamedTuple(PointCls, f) : f \in [{"x", "y"} -> S] }

Level1 == Containers(Leaves)

Level2 ==
    { PyList(<<v>>) : v \in Level1 }
    \cup { PyDict("a" :> v) : v \in Level1 }
    \cup { NamedTuple(PointCls, ("x" :> v) @@ ("y" :> PyInt(1))) : v \in Level1 }
    \cup { NamedTuple(LocalCls, ("x" :> PyInt(1)) @@ ("y" :> PyInt(1))) }

Values == Leaves \cup Level1 \cup Level2

\* Whether every record type inside a value can be found again.
RECURSIVE Resolvable(_)
Resolvable(o) ==
    IF o[1] = "namedtuple"
    THEN o[2] \in Registry /\ \A k \in DOMAIN o[3] : Resolvable(o[3][k])
    ELSE IF o[1] \in {"list", "tuple"} THEN \A i \in 1..Len(o[2]) : Resolvable(o[2][i])
    ELSE IF o[1] = "dict" THEN \A k \in DOMAIN o[2] : Resolvable(o[2][k])
    ELSE TRUE

(***************************************************************************)
(* Numbers.  The priors compute on floats; the model computes exactly, on  *)
(* a grid where every intermediate value of the code is representable:     *)
(*   - a linear-domain number x (a uniform, a sample, low, high) is the    *)
(*     integer x * Scale, Scale a power of two;                            *)
(*   - log and exp are taken to base 2 (the code's natural log differs by  *)
(*     a constant factor, which every formula of the code cancels), so a   *)
(*     log-domain number is an integer number of bits;                     *)
(*   - NaN, which the code produces from 0/0, is its own value.            *)
(***************************************************************************)
RECURSIVE Pow(_, _)
Pow(b, e) == IF e = 0 THEN 1 ELSE b * Pow(b, e - 1)

RECURSIVE Factorial(_)
Factorial(m) == IF m = 0 THEN 1 ELSE m * Factorial(m - 1)

FracBits == MaxA * MaxN
Scale == Pow(2, FracBits)
NaN == -1

Fix(v) == v * Scale

\* jnp.log on a linear-domain x > 0: floor(log2 x), exact on powers of two.
RECURSIVE Log2(_)
Log2(x) ==
    IF x >= Scale
    THEN (IF x < 2 * Scale THEN 0 ELSE 1 + Log2(x \div 2))
    ELSE Log2(2 * x) - 1

\* jnp.exp on a log-domain e <= 0.
Exp2(e) == Scale \div Pow(2, -e)

Reverse(s) == [i \in 1..Len(s) |-> s[Len(s) + 1 - i]]

\* jnp.cumsum(s, axis=0)
RECURSIVE cumsum(_)
cumsum(s) ==
    IF s = <<>> THEN <<>>
    ELSE LET front == cumsum(Front(s))
         IN Append(front, (IF front = <<>> THEN 0 ELSE Last(front)) + Last(s))

\* jnp.diff(s, prepend=0, axis=0)
diff_prepend0(s) == [i \in 1..Len(s) |-> s[i] - (IF i = 1 THEN 0 ELSE s[i - 1])]

(***************************************************************************)
(* ForcedIdentifiability.  low and high are scalars (shape ()), so         *)
(* shape = (n,) and base_shape = (n_free,).                                *)
(***************************************************************************)
\* __init__: n_min
n_min(fix_left, fix_right) ==
    (IF fix_left THEN 1 ELSE 0) + (IF fix_right THEN 1 ELSE 0)

\* A variant of the check that also rejects n equal to n_min.
n_too_small_strict(n, fix_left, fix_right) == n <= n_min(fix_left, fix_right)

\* __init__: the check that raises ValueError
n_too_small(n, fix_left, fix_right) == n < n_min(fix_left, fix_right)

\* The local n of _log_prob, _cdf and _quantile, and num_base of _base_shape.
num_base(self) ==
    LET n0 == self.n
        n1 == IF self.fix_left THEN n0 - 1 ELSE n0
        n2 == IF self.fix_right THEN n1 - 1 ELSE n1
    IN n2

base_shape(self) == <<num_base(self)>>
shape(self) == <<self.n>>

\* A variant of the cumulative sum that runs from the front.
forward_cumsum(inner) == cumsum(inner)

\* _quantile: cumsum(inner[::-1])[::-1]
reverse_cumsum(inner) == Reverse(cumsum(Reverse(inner)))

\* _quantile
quantile(self, U) ==
    LET n == num_base(self)
        log_x == [j \in 1..n |-> Log2(U[j])]
        k == [j \in 1..n |-> (j - 1) + 1]
        inner == [j \in 1..n |-> log_x[j] \div k[j]]
        log_output == reverse_cumsum(inner)
        output == [j \in 1..n |->
                      Fix(self.low) + (self.high - self.low) * Exp2(log_output[j])]
        o1 == IF self.fix_left THEN <<Fix(self.low)>> \o output ELSE output
        o2 == IF self.fix_right THEN o1 \o <<Fix(self.high)>> ELSE o1
    IN o2

\* A variant of k that counts from zero.
cdf_k_from_zero(n) == [j \in 1..n |-> j - 1]

\* _cdf: k = jnp.arange(n) + 1
cdf_k(n) == [j \in 1..n |-> (j - 1) + 1]

\* _cdf: the fixed endpoints stripped
cdf_strip(self, X) ==
    LET x1 == IF self.fix_left THEN Tail(X) ELSE X
        x2 == IF self.fix_right THEN Front(x1) ELSE x1
    IN x2

\* _cdf.  With high = low every (X - low) / (high - low) is 0/0 = nan, and
\* nan goes through log, diff, the product and exp.
cdf(self, X) ==
    LET Xs == cdf_strip(self, X)
        n == num_base(self)
    IN IF self.high = self.low
       THEN [j \in 1..n |-> NaN]
       ELSE LET log_output == [j \in 1..n |->
                    Log2(((Xs[j] - Fix(self.low)) * Scale) \div (Fix(self.high) - Fix(self.low)))]
                inner == Reverse(diff_prepend0(Reverse(log_output)))
                k == cdf_k(n)
                log_x == [j \in 1..n |-> inner[j] * k[j]]
            IN [j \in 1..n |-> Exp2(log_x[j])]

(***************************************************************************)
(* A log-density is kept as the number whose log it is: [kind, num, den]   *)
(* stands for log(num/den) when kind = "fin"; the other kinds are "-inf",  *)
(* "+inf" and "nan".                                                       *)
(***************************************************************************)
LogFin(num, den) == [kind |-> "fin", num |-> num, den |-> den]
LogSpecial(kind) == [kind |-> kind, num |-> 0, den |-> 0]

\* jnp.log of an integer x >= 0
LogOf(x) == IF x = 0 THEN LogSpecial("-inf") ELSE LogFin(x, 1)

\* n * l for an integer n >= 0
LogTimes(n, l) ==
    IF l.kind = "fin" THEN LogFin(Pow(l.num, n), Pow(l.den, n))
    ELSE IF n = 0 THEN LogSpecial("nan")
    ELSE l

\* -l
LogNeg(l) ==
    IF l.kind = "fin" THEN LogFin(l.den, l.num)
    ELSE IF l.kind = "-inf" THEN LogSpecial("+inf")
    ELSE IF l.kind = "+inf" THEN LogSpecial("-inf")
    ELSE l

\* a + b
LogPlus(a, b) ==
    IF a.kind = "nan" \/ b.kind = "nan" THEN LogSpecial("nan")
    ELSE IF a.kind = "fin" /\ b.kind = "fin" THEN LogFin(a.num * b.num, a.den * b.den)
    ELSE IF a.kind = "fin" THEN b
    ELSE IF b.kind = "fin" THEN a
    ELSE IF a.kind = b.kind THEN a
    ELSE LogSpecial("nan")

\* gammaln(n + 1) = log(n!)
gammaln_succ(n) == LogFin(Factorial(n), 1)

\* A variant of the count that keeps the fixed endpoints in.
log_prob_raw_n(self) == self.n

\* _log_prob: the count the formula uses
log_prob_n(self) == num_base(self)

\* _log_prob.  X is not read.
log_prob(self, X) ==
    LET n == log_prob_n(self)
        log_n_fac == gammaln_succ(n)
        diff == self.high - self.low
    IN LogPlus(LogNeg(log_n_fac), LogNeg(LogTimes(n, LogOf(diff))))

(***************************************************************************)
(* The distribution wrappers.  A probability or a uniform is an integer    *)
(* number of 1/Den; a log-probability is kept as above.                    *)
(***************************************************************************)
\* Whether log a < log b.
LogLess(a, b) ==
    IF a.kind = "-inf" THEN b.kind # "-inf"
    ELSE IF b.kind = "-inf" THEN FALSE
    ELSE a.num * b.den < b.num * a.den

\* a - b, b finite
LogMinus(a, b) == LogPlus(a, LogNeg(b))

\* A variant of the threshold test that takes u = p as a success.
bernoulli_quantile_le(probs, U) == [b \in 1..Len(U) |-> IF U[b] <= probs THEN 1 ELSE 0]

\* Bernoulli._quantile: jnp.less(U, probs).astype(dtype)
bernoulli_quantile(probs, U) == [b \in 1..Len(U) |-> IF U[b] < probs THEN 1 ELSE 0]

\* Bernoulli._inverse: self.dist.cdf(X), the Bernoulli CDF, over Den
bernoulli_cdf(probs, X) ==
    [b \in 1..Len(X) |-> IF X[b] < 0 THEN 0 ELSE IF X[b] < 1 THEN Den - probs ELSE Den]

\* self.dist._logits_parameter_no_checks(): the log of each probability
cat_logits(probs) == [i \in 1..Len(probs) |-> LogOf(probs[i])]

\* cumulative_logsumexp(logits, axis=-1): the log of the running sum
cumulative_logsumexp(logits) ==
    LET sums == cumsum([i \in 1..Len(logits) |->
                          IF logits[i].kind = "fin" THEN logits[i].num ELSE 0])
    IN [i \in 1..Len(logits) |-> LogOf(sums[i])]

\* jnp.searchsorted(a, v, side='left') on a sorted a: binary search, 0-based result
RECURSIVE searchsorted_left(_, _, _, _)
searchsorted_left(a, v, lo, hi) ==
    IF lo >= hi THEN lo
    ELSE LET mid == (lo + hi) \div 2
         IN IF LogLess(a[mid + 1], v)
            THEN searchsorted_left(a, v, mid + 1, hi)
            ELSE searchsorted_left(a, v, lo, mid)

\* side='right': the first index whose element is greater than v
RECURSIVE searchsorted_right(_, _, _, _)
searchsorted_right(a, v, lo, hi) ==
    IF lo >= hi THEN lo
    ELSE LET mid == (lo + hi) \div 2
         IN IF LogLess(v, a[mid + 1])
            THEN searchsorted_right(a, v, lo, mid)
            ELSE searchsorted_right(a, v, mid + 1, hi)

\* A variant of the search that takes side='right'.
cat_search_right(a, v) == searchsorted_right(a, v, 0, Len(a))

\* Categorical._quantile_cdf: the search of one batch element
cat_search(a, v) == searchsorted_left(a, v, 0, Len(a))

\* Categorical._quantile_cdf.  probs holds one row per batch element, U one
\* uniform per batch element.
quantile_cdf(probs, U) ==
    [b \in 1..Len(U) |->
        LET logits == cat_logits(probs[b])
            cum == cumulative_logsumexp(logits)
            cum_logits == [i \in 1..Len(cum) |-> LogMinus(cum[i], Last(cum))]
            log_U == LogFin(U[b], Den)
        IN cat_search(cum_logits, log_U)]

\* jnp.argmax over the categories of logits + z, z = -log(-log(U)): category
\* i beats j when U[i]^(1/p[i]) > U[j]^(1/p[j]), that is, for p[i], p[j] > 0,
\* when U[i]^p[j] * Den^p[i] > U[j]^p[i] * Den^p[j]; the first maximum wins.
gumbel_beats(p, u, i, j) ==
    IF p[i] = 0 THEN FALSE
    ELSE IF p[j] = 0 THEN TRUE
    ELSE Pow(u[i], p[j]) * Pow(Den, p[i]) > Pow(u[j], p[i]) * Pow(Den, p[j])

\* Categorical._quantile_gumbelmax.  U holds one row of uniforms per batch element.
quantile_gumbelmax(probs, U) ==
    [b \in 1..Len(U) |->
        (CHOOSE i \in 1..Len(probs[b]) :
            /\ \A j \in 1..Len(probs[b]) : ~gumbel_beats(probs[b], U[b], j, i)
            /\ \A j \in 1..(i - 1) : gumbel_beats(probs[b], U[b], i, j)) - 1]

\* Categorical._inverse: self.dist.cdf(X), the categorical CDF P(x <= X), over Den
categorical_cdf(probs, X) ==
    [b \in 1..Len(X) |->
        IF X[b] < 0 THEN 0
        ELSE cumsum(probs[b])[IF X[b] + 1 > Len(probs[b]) THEN Len(probs[b]) ELSE X[b] + 1]]

\* A variant under which every parametrisation has an inverse.
inverse_always_defined(parametrisation) == TRUE

\* Categorical._inverse: if self._parametrisation == 'cdf'
inverse_defined(parametrisation) == parametrisation = "cdf"

\* Categorical._base_shape, for batch shape (B,)
cat_base_shape(self) ==
    IF self.parametrisation = "gumbel_max" THEN <<Len(self.probs), Len(self.probs[1])>>
    ELSE <<Len(self.probs)>>

(***************************************************************************)
(* Beta.  A concentration is [kind, vals]: kind is "scalar" for a Python   *)
(* float or int (vals holds it), "ndarray" for a numpy array and "jax" for *)
(* any other array; vals are its elements.                                 *)
(***************************************************************************)
Conc(kind, vals) == [kind |-> kind, vals |-> vals]

\* isinstance(c, (float, int)) and c == 1
scalar_is_one(c) == c.kind = "scalar" /\ c.vals[1] = 1

\* A variant of the array test that is met by one element.
ndarray_any_one(c) == c.kind = "ndarray" /\ \E i \in 1..Len(c.vals) : c.vals[i] = 1

\* isinstance(c, np.ndarray) and np.all(c == 1)
ndarray_all_one(c) == c.kind = "ndarray" /\ \A i \in 1..Len(c.vals) : c.vals[i] = 1

\* Beta.__init__: the class of self.dist
beta_dist(concentration0, concentration1) ==
    IF scalar_is_one(concentration0) THEN "Kumaraswamy"
    ELSE IF scalar_is_one(concentration1) THEN "Kumaraswamy"
    ELSE IF ndarray_all_one(concentration0) THEN "Kumaraswamy"
    ELSE IF ndarray_all_one(concentration1) THEN "Kumaraswamy"
    ELSE "Beta"

\* The concentration of element i, after broadcasting.
ConcAt(c, i) == IF Len(c.vals) = 1 THEN c.vals[1] ELSE c.vals[i]

\* The number of elements of the Beta's shape.
beta_size(self) ==
    IF Len(self.concentration0.vals) >= Len(self.concentration1.vals)
    THEN Len(self.concentration0.vals) ELSE Len(self.concentration1.vals)

\* Beta._quantile: self.dist.quantile(U), as the quantile function applied to
\* each element: its family and the element's parameters and uniform.
beta_quantile(self, U) ==
    [i \in 1..Len(U) |->
        <<self.dist, ConcAt(self.concentration0, i), ConcAt(self.concentration1, i), U[i]>>]

(***************************************************************************)
(* _poisson_quantile_bisection, for a scalar U and a scalar rate.          *)
(*                                                                         *)
(* A point x of the search is an integer number of rate / 2^max_iter, so   *)
(* that every midpoint the scan can form is exact.  smooth_cdf is          *)
(* lax.igammac(x + 1, rate), which the scan reads only through f_c > U and *)
(* f_b >= U; the model takes for it a non-decreasing function of x that    *)
(* the call's input fixes: it rises with x, stays at one level on          *)
(* [q1, q2], and rises again.  The constant the scan starts f_a with, 0,   *)
(* lies below every value of it.                                           *)
(***************************************************************************)
\* max_iter=15
max_iter == 15

\* b = jnp.asarray(rate), in units of rate / 2^max_iter
rate_units == Pow(2, max_iter)

Min(x, y) == IF x <= y THEN x ELSE y
Max(x, y) == IF x >= y THEN x ELSE y

\* smooth_cdf(x, rate)
smooth_cdf(in, x) == 2 + Min(x, in.q1) + Max(0, x - in.q2)

\* A variant of the test that keeps doubling while f_b only equals U.
bounded_strict(f_b, U) == f_b > U

\* bounded = f_b >= U
bounded(f_b, U) == f_b >= U

\* fixed_point_update: the new carry and the midpoint it reports
fixed_point_update(in, x) ==
    LET a == x[1]
        b == x[2]
        f_a == x[3]
        f_b == x[4]
        c == (a + b) \div 2
        f_c == smooth_cdf(in, c)
        left == f_c > in.U
        a1 == IF left THEN a ELSE c
        f_a1 == IF left THEN f_a ELSE f_c
        b1 == IF left THEN c ELSE b
        f_b1 == IF left THEN f_c ELSE f_b
        a2 == a
        f_a2 == f_a
        b2 == b * 2
        f_b2 == smooth_cdf(in, b2)
        isBounded == bounded(f_b, in.U)
        an == IF isBounded THEN a1 ELSE a2
        bn == IF isBounded THEN b1 ELSE b2
        f_an == IF isBounded THEN f_a1 ELSE f_a2
        f_bn == IF isBounded THEN f_b1 ELSE f_b2
    IN <<an, bn, f_an, f_bn, (an + bn) \div 2>>

\* init = (a, b, f_a, f_b)
scan_init(in) == <<0, rate_units, 0, smooth_cdf(in, rate_units)>>

\* A variant of the scan that stops once the bracket is at most rate / 2 wide.
scan_until_converged(i, x) == i < max_iter /\ 2 * (x[2] - x[1]) > rate_units

\* lax.scan over jnp.arange(max_iter): whether another iteration follows
scan_continues(i, x) == i < max_iter

(***************************************************************************)
(* Each specification runs one component; the others stay idle.            *)
(***************************************************************************)
SerIdle == obj = None /\ ser = None /\ out = None /\ pcS = "idle"

NoFI == [n |-> 0, low |-> 0, high |-> 0, fix_left |-> FALSE, fix_right |-> FALSE]
NoLp == LogSpecial("none")

FIIdle ==
    /\ fi = NoFI /\ fiArgs = NoFI /\ pcF = "idle"
    /\ fiU = <<>> /\ fiX = <<>> /\ fiInv = <<>> /\ fiLpX = <<>> /\ fiLp = NoLp
    /\ fiDone = {}

NoCat == [parametrisation |-> "none", probs |-> <<>>]
NoBeta == [concentration0 |-> Conc("none", <<>>), concentration1 |-> Conc("none", <<>>),
           dist |-> "none"]

PrIdle ==
    /\ pcP = "idle" /\ bern = 0 /\ catArgs = NoCat /\ catg = NoCat /\ beta = NoBeta
    /\ pU = <<>> /\ pX = <<>> /\ pInv = <<>> /\ pErr = "none" /\ pDone = {}

NoPqIn == [U |-> 0, q1 |-> 0, q2 |-> 0, rate_size |-> 0]

PqIdle ==
    /\ pcQ = "idle" /\ pqIn = NoPqIn /\ pqX = <<0, 0, 0, 0>> /\ pqI = 0
    /\ pqResults = <<>> /\ pqTrace = <<>> /\ pqC = 0

(***************************************************************************)
(* The serialisation bridge as a state machine.                            *)
(***************************************************************************)
InitSer ==
    /\ obj \in Values
    /\ ser = None
    /\ out = None
    /\ pcS = "start"
    /\ FIIdle /\ PrIdle /\ PqIdle

Serialise ==
    /\ pcS = "start"
    /\ ser' = serialise_namedtuple(obj)
    /\ pcS' = "serialised"
    /\ UNCHANGED <<obj, out>>
    /\ UNCHANGED <<fiVars, prVars, pqVars>>

Deserialise ==
    /\ pcS = "serialised"
    /\ out' = deserialise_namedtuple(ser)
    /\ pcS' = "deserialised"
    /\ UNCHANGED <<obj, ser>>
    /\ UNCHANGED <<fiVars, prVars, pqVars>>

NextSer == Serialise \/ Deserialise

SpecSer == InitSer /\ [][NextSer]_vars

(***************************************************************************)
(* ForcedIdentifiability as a state machine.                               *)
(***************************************************************************)
InitFI ==
    /\ fi = NoFI /\ fiArgs = NoFI /\ pcF = "new"
    /\ fiU = <<>> /\ fiX = <<>> /\ fiInv = <<>> /\ fiLpX = <<>> /\ fiLp = NoLp
    /\ fiDone = {}
    /\ SerIdle /\ PrIdle /\ PqIdle

\* The uniforms forward is called with: position k holds 2^(-a*k).
UGrid(n) == [1..n -> 0..MaxA]
UOf(a) == [j \in 1..Len(a) |-> Exp2(-(a[j] * j))]

\* __init__
FIConstruct ==
    /\ pcF = "new"
    /\ \E n \in 0..MaxN, low \in 0..MaxV, high \in 0..MaxV, fl \in BOOLEAN, fr \in BOOLEAN :
          /\ low <= high
          /\ fiArgs' = [n |-> n, low |-> low, high |-> high,
                        fix_left |-> fl, fix_right |-> fr]
          /\ IF n_too_small(n, fl, fr)
             THEN pcF' = "ValueError" /\ fi' = fi
             ELSE pcF' = "built" /\ fi' = fiArgs'
    /\ UNCHANGED <<fiU, fiX, fiInv, fiLpX, fiLp, fiDone>>
    /\ UNCHANGED <<serVars, prVars, pqVars>>

\* forward(U)
FIForward ==
    /\ pcF = "built"
    /\ "forward" \notin fiDone
    /\ \E a \in UGrid(base_shape(fi)[1]) :
          /\ fiU' = UOf(a)
          /\ fiX' = quantile(fi, UOf(a))
    /\ fiDone' = fiDone \cup {"forward"}
    /\ UNCHANGED <<fi, fiArgs, pcF, fiInv, fiLpX, fiLp>>
    /\ UNCHANGED <<serVars, prVars, pqVars>>

\* inverse(X), X what forward returned
FIInverse ==
    /\ pcF = "built"
    /\ "forward" \in fiDone
    /\ "inverse" \notin fiDone
    /\ fiInv' = cdf(fi, fiX)
    /\ fiDone' = fiDone \cup {"inverse"}
    /\ UNCHANGED <<fi, fiArgs, pcF, fiU, fiX, fiLpX, fiLp>>
    /\ UNCHANGED <<serVars, prVars, pqVars>>

\* log_prob(X), X a sample or any other sequence of n values
FILogProb ==
    /\ pcF = "built"
    /\ "log_prob" \notin fiDone
    /\ \E X \in ({ [j \in 1..fi.n |-> Fix(v)] : v \in 0..MaxV }
                   \cup (IF "forward" \in fiDone THEN {fiX} ELSE {})) :
          /\ fiLpX' = X
          /\ fiLp' = log_prob(fi, X)
    /\ fiDone' = fiDone \cup {"log_prob"}
    /\ UNCHANGED <<fi, fiArgs, pcF, fiU, fiX, fiInv>>
    /\ UNCHANGED <<serVars, prVars, pqVars>>

NextFI == FIConstruct \/ FIForward \/ FIInverse \/ FILogProb

SpecFI == InitFI /\ [][NextFI]_vars

(***************************************************************************)
(* Bernoulli, Categorical and Beta as a state machine: one object is       *)
(* built, then forward and inverse are called on it.                       *)
(***************************************************************************)
InitPr ==
    /\ pcP = "new" /\ bern = 0 /\ catArgs = NoCat /\ catg = NoCat /\ beta = NoBeta
    /\ pU = <<>> /\ pX = <<>> /\ pInv = <<>> /\ pErr = "none" /\ pDone = {}
    /\ SerIdle /\ FIIdle /\ PqIdle

\* The uniforms of the wrappers: the multiples of 1/Den inside (0,1).
Uniforms == 1..(Den - 1)

\* The rows of probabilities a Categorical is built with: they sum to one.
RECURSIVE SeqSum(_)
SeqSum(q) == IF q = <<>> THEN 0 ELSE Head(q) + SeqSum(Tail(q))
ProbRows == { q \in [1..NCat -> 0..Den] : SeqSum(q) = Den }

\* The batch elements of a Categorical: batch shape (2,).
Batch == 1..2

\* The concentrations a Beta is built with.
Concs ==
    { Conc("scalar", <<v>>) : v \in 1..2 }
    \cup { Conc(kind, vals) : kind \in {"ndarray", "jax"}, vals \in [1..2 -> 1..2] }

\* Bernoulli.__init__
BernoulliConstruct ==
    /\ pcP = "new"
    /\ \E probs \in 0..Den : bern' = probs
    /\ pcP' = "Bernoulli"
    /\ UNCHANGED <<catArgs, catg, beta, pU, pX, pInv, pErr, pDone>>
    /\ UNCHANGED <<serVars, fiVars, pqVars>>

\* Bernoulli._forward
BernoulliForward ==
    /\ pcP = "Bernoulli"
    /\ "forward" \notin pDone
    /\ \E u \in Uniforms :
          /\ pU' = <<u>>
          /\ pX' = bernoulli_quantile(bern, <<u>>)
    /\ pDone' = pDone \cup {"forward"}
    /\ UNCHANGED <<pcP, bern, catArgs, catg, beta, pInv, pErr>>
    /\ UNCHANGED <<serVars, fiVars, pqVars>>

\* Bernoulli._inverse, on what forward returned
BernoulliInverse ==
    /\ pcP = "Bernoulli"
    /\ "forward" \in pDone
    /\ "inverse" \notin pDone
    /\ pInv' = bernoulli_cdf(bern, pX)
    /\ pDone' = pDone \cup {"inverse"}
    /\ UNCHANGED <<pcP, bern, catArgs, catg, beta, pU, pX, pErr>>
    /\ UNCHANGED <<serVars, fiVars, pqVars>>

\* Categorical.__init__
CategoricalConstruct ==
    /\ pcP = "new"
    /\ \E parametrisation \in {"gumbel_max", "cdf"}, probs \in [Batch -> ProbRows] :
          /\ catArgs' = [parametrisation |-> parametrisation, probs |-> probs]
          /\ catg' = [parametrisation |-> parametrisation, probs |-> probs]
    /\ pcP' = "Categorical"
    /\ UNCHANGED <<bern, beta, pU, pX, pInv, pErr, pDone>>
    /\ UNCHANGED <<serVars, fiVars, pqVars>>

\* The uniforms a gumbel_max forward is called with: for each category c, the
\* rows whose largest uniform is at c.
GumbelUniforms ==
    { [b \in Batch |-> [i \in 1..NCat |-> IF i = c THEN Den - 1 ELSE 1]] : c \in 1..NCat }

\* Categorical._forward
CategoricalForward ==
    /\ pcP = "Categorical"
    /\ "forward" \notin pDone
    /\ IF catg.parametrisation = "gumbel_max"
       THEN \E U \in GumbelUniforms :
               /\ pU' = U
               /\ pX' = quantile_gumbelmax(catg.probs, U)
       ELSE \E U \in [Batch -> Uniforms] :
               /\ pU' = U
               /\ pX' = quantile_cdf(catg.probs, U)
    /\ pDone' = pDone \cup {"forward"}
    /\ UNCHANGED <<pcP, bern, catArgs, catg, beta, pInv, pErr>>
    /\ UNCHANGED <<serVars, fiVars, pqVars>>

\* Categorical._inverse, on what forward returned
CategoricalInverse ==
    /\ pcP = "Categorical"
    /\ "forward" \in pDone
    /\ "inverse" \notin pDone
    /\ IF inverse_defined(catg.parametrisation)
       THEN pInv' = categorical_cdf(catg.probs, pX) /\ pErr' = pErr
       ELSE pInv' = pInv /\ pErr' = "NotImplementedError"
    /\ pDone' = pDone \cup {"inverse"}
    /\ UNCHANGED <<pcP, bern, catArgs, catg, beta, pU, pX>>
    /\ UNCHANGED <<serVars, fiVars, pqVars>>

\* Beta.__init__
BetaConstruct ==
    /\ pcP = "new"
    /\ \E c0 \in Concs, c1 \in Concs :
          beta' = [concentration0 |-> c0, concentration1 |-> c1, dist |-> beta_dist(c0, c1)]
    /\ pcP' = "Beta"
    /\ UNCHANGED <<bern, catArgs, catg, pU, pX, pInv, pErr, pDone>>
    /\ UNCHANGED <<serVars, fiVars, pqVars>>

\* Beta._forward
BetaForward ==
    /\ pcP = "Beta"
    /\ "forward" \notin pDone
    /\ \E U \in [1..beta_size(beta) -> {1, Den - 1}] :
          /\ pU' = U
          /\ pX' = beta_quantile(beta, U)
    /\ pDone' = pDone \cup {"forward"}
    /\ UNCHANGED <<pcP, bern, catArgs, catg, beta, pInv, pErr>>
    /\ UNCHANGED <<serVars, fiVars, pqVars>>

NextPr ==
    \/ BernoulliConstruct \/ BernoulliForward \/ BernoulliInverse
    \/ CategoricalConstruct \/ CategoricalForward \/ CategoricalInverse
    \/ BetaConstruct \/ BetaForward

SpecPr == InitPr /\ [][NextPr]_vars

(***************************************************************************)
(* The Poisson bisection as a state machine: the call, one action per scan *)
(* iteration, and the return.                                              *)
(***************************************************************************)
\* The quantiles looked for: 0, (2k-1) * 2^e inside the reach of the doubling,
\* and one beyond it.
Quantiles ==
    {0} \cup { (2 * k - 1) * Pow(2, e) : k \in 1..MaxMant, e \in 0..(2 * max_iter - 3) }
        \cup { Pow(2, 2 * max_iter) + 1 }

\* The inputs of a call: smooth_cdf crosses U at one point, q1 = q2, or equals
\* U on [q1, q2]; or U lies below smooth_cdf(0) (U = 1).
PqInputs ==
    { [U |-> 2 + q, q1 |-> q, q2 |-> q, rate_size |-> 1] : q \in Quantiles }
    \cup { [U |-> 2 + q, q1 |-> q, q2 |-> 2 * q, rate_size |-> 1] :
              q \in { t \in Quantiles : t > 0 /\ t < Pow(2, 2 * max_iter - 1) } }
    \cup { [U |-> 1, q1 |-> 0, q2 |-> 0, rate_size |-> 1] }
    \cup { [U |-> 2, q1 |-> 0, q2 |-> 0, rate_size |-> 2] }

InitPq ==
    /\ pcQ = "new" /\ pqIn \in PqInputs /\ pqX = <<0, 0, 0, 0>> /\ pqI = 0
    /\ pqResults = <<>> /\ pqTrace = <<>> /\ pqC = 0
    /\ SerIdle /\ FIIdle /\ PrIdle

\* _poisson_quantile_bisection up to the scan
PqCall ==
    /\ pcQ = "new"
    /\ IF pqIn.rate_size > 1
       THEN pcQ' = "ValueError" /\ pqX' = pqX
       ELSE pcQ' = "scan" /\ pqX' = scan_init(pqIn)
    /\ UNCHANGED <<pqIn, pqI, pqResults, pqTrace, pqC>>
    /\ UNCHANGED <<serVars, fiVars, prVars>>

\* One iteration of lax.scan(fixed_point_update, init, jnp.arange(max_iter))
PqIterate ==
    /\ pcQ = "scan"
    /\ scan_continues(pqI, pqX)
    /\ LET r == fixed_point_update(pqIn, pqX)
       IN /\ pqX' = <<r[1], r[2], r[3], r[4]>>
          /\ pqResults' = Append(pqResults, r[5])
    /\ pqTrace' = Append(pqTrace, IF bounded(pqX[4], pqIn.U) THEN "bisect" ELSE "double")
    /\ pqI' = pqI + 1
    /\ UNCHANGED <<pcQ, pqIn, pqC>>
    /\ UNCHANGED <<serVars, fiVars, prVars>>

\* c = 0.5 * (a + b); return c, x_results
PqReturn ==
    /\ pcQ = "scan"
    /\ ~scan_continues(pqI, pqX)
    /\ pqC' = (pqX[1] + pqX[2]) \div 2
    /\ pcQ' = "done"
    /\ UNCHANGED <<pqIn, pqX, pqI, pqResults, pqTrace>>
    /\ UNCHANGED <<serVars, fiVars, prVars>>

NextPq == PqCall \/ PqIterate \/ PqReturn

SpecPq == InitPq /\ [][NextPq]_vars

(***************************************************************************)
(* C1.  For every structured value built from nested namedtuple records,   *)
(* numpy arrays, lists/tuples and dicts whose record types are resolvable, *)
(* deserialise_namedtuple(serialise_namedtuple(value)) equals the value in *)
(* type, field values and array dtype/shape/contents.                      *)
(***************************************************************************)
C1_RoundTrip ==
    (pcS = "deserialised" /\ Resolvable(obj)) => out = obj

\* Where the round trip loses something: a plain tuple comes back as a list,
\* and an array with a zero-length axis before another axis comes back with
\* shape (0,).
RECURSIVE HasTuple(_)
HasTuple(o) ==
    IF o[1] = "tuple" THEN TRUE
    ELSE IF o[1] = "list" THEN \E i \in 1..Len(o[2]) : HasTuple(o[2][i])
    ELSE IF o[1] = "dict" THEN \E k \in DOMAIN o[2] : HasTuple(o[2][k])
    ELSE IF o[1] = "namedtuple" THEN \E k \in DOMAIN o[3] : HasTuple(o[3][k])
    ELSE FALSE

RECURSIVE HasLossyArray(_)
HasLossyArray(o) ==
    IF o[1] = "ndarray" THEN \E i \in 1..Len(o[3]) : o[3][i] = 0 /\ i < Len(o[3])
    ELSE IF o[1] \in {"list", "tuple"} THEN \E i \in 1..Len(o[2]) : HasLossyArray(o[2][i])
    ELSE IF o[1] = "dict" THEN \E k \in DOMAIN o[2] : HasLossyArray(o[2][k])
    ELSE IF o[1] = "namedtuple" THEN \E k \in DOMAIN o[3] : HasLossyArray(o[3][k])
    ELSE FALSE

\* The round trip holds of every other resolvable value of the model.
RoundTripElsewhere ==
    (pcS = "deserialised" /\ Resolvable(obj) /\ ~HasTuple(obj) /\ ~HasLossyArray(obj))
        => out = obj

\* An unresolvable record type surfaces as an exception.
UnresolvableRaises ==
    (pcS = "deserialised" /\ ~Resolvable(obj)) => IsRaise(out)

(***************************************************************************)
(* Claims about ForcedIdentifiability, checked under SpecFI.               *)
(***************************************************************************)
\* The number of fixed endpoints the constructor was asked for.
FixedRequested == Cardinality({ e \in {"left", "right"} :
                     (e = "left" /\ fiArgs.fix_left) \/ (e = "right" /\ fiArgs.fix_right) })

\* The number of free values of the built object.
NFree == fi.n - Cardinality({ e \in {"left", "right"} :
                     (e = "left" /\ fi.fix_left) \/ (e = "right" /\ fi.fix_right) })

(***************************************************************************)
(* C3.  Constructing ForcedIdentifiability raises ValueError exactly when  *)
(* n is smaller than the number of fixed endpoints requested; for every n  *)
(* at or above that number (n equal to it included) the object is built,   *)
(* with the arguments as its fields.                                       *)
(***************************************************************************)
C3_ValueErrorIffTooSmall ==
    pcF \in {"built", "ValueError"} =>
        /\ (pcF = "ValueError") <=> (fiArgs.n < FixedRequested)
        /\ pcF = "built" => fi = fiArgs

\* n = 1 with both endpoints fixed is rejected.
C3_Witness ==
    pcF = "ValueError" /\ fiArgs.n = 1 /\ fiArgs.fix_left /\ fiArgs.fix_right

\* n = 2 with both endpoints fixed (no free value) is built.
C3_BoundaryBuilt ==
    pcF = "built" /\ fi.n = 2 /\ fi.fix_left /\ fi.fix_right /\ base_shape(fi) = <<0>>

(***************************************************************************)
(* C4.  For low <= high and U of base_shape with entries in (0,1],         *)
(* forward(U) has exactly n entries, non-decreasing, all in [low, high];   *)
(* with fix_left the first is low and with fix_right the last is high.     *)
(***************************************************************************)
C4_ForwardOrdered ==
    "forward" \in fiDone =>
        /\ Len(fiU) = base_shape(fi)[1]
        /\ \A j \in 1..Len(fiU) : 0 < fiU[j] /\ fiU[j] <= Scale
        /\ Len(fiX) = fi.n
        /\ \A j \in 1..Len(fiX) : Fix(fi.low) <= fiX[j] /\ fiX[j] <= Fix(fi.high)
        /\ \A i, j \in 1..Len(fiX) : i <= j => fiX[i] <= fiX[j]
        /\ fi.fix_left => fiX[1] = Fix(fi.low)
        /\ fi.fix_right => fiX[fi.n] = Fix(fi.high)

\* n = 3 with both endpoints fixed: one uniform gives [low, x, high], x strictly between.
C4_Witness ==
    /\ "forward" \in fiDone
    /\ fi.n = 3 /\ fi.fix_left /\ fi.fix_right /\ fi.low = 0 /\ fi.high = 1
    /\ Len(fiU) = 1
    /\ Len(fiX) = 3 /\ fiX[1] = 0 /\ fiX[3] = Scale
    /\ 0 < fiX[2] /\ fiX[2] < Scale

C5_DegenerateIsNaN ==
    ("inverse" \in fiDone /\ fi.low = fi.high) => \A j \in 1..Len(fiInv) : fiInv[j] = NaN

(***************************************************************************)
(* C6.  log_prob(X) does not depend on X: for low < high it is             *)
(* -log(n_free!) - n_free*log(high-low), n_free being n less the number of *)
(* fixed endpoints; for n = 3, low = 0, high = 1, both endpoints fixed it  *)
(* is 0 = log(1/1); the stored n is the n the object was built with.       *)
(***************************************************************************)
C6_LogProbConstant ==
    "log_prob" \in fiDone =>
        /\ fi.low < fi.high =>
              fiLp = LogFin(1, Factorial(NFree) * Pow(fi.high - fi.low, NFree))
        /\ (fi.n = 3 /\ fi.low = 0 /\ fi.high = 1 /\ fi.fix_left /\ fi.fix_right) =>
              fiLp = LogFin(1, 1)
        /\ fi.n = fiArgs.n

\* log_prob of a sample of n = 3, fixed at both ends, on [0, 2]: log(1/2).
C6_Witness ==
    /\ "log_prob" \in fiDone /\ "forward" \in fiDone
    /\ fiLpX = fiX
    /\ fi.n = 3 /\ fi.low = 0 /\ fi.high = 2 /\ fi.fix_left /\ fi.fix_right
    /\ fiLp = LogFin(1, 2)

(***************************************************************************)
(* Claims about Bernoulli, Categorical and Beta, checked under SpecPr.     *)
(***************************************************************************)
\* The probability of the first k categories of a row, over Den.
PartialSum(row, k) == SeqSum(SubSeq(row, 1, k))

C7_InverseByParametrisation ==
    pcP = "Categorical" =>
        /\ catg.parametrisation = catArgs.parametrisation
        /\ "inverse" \in pDone =>
              /\ catArgs.parametrisation = "gumbel_max" =>
                    pErr = "NotImplementedError" /\ pInv = <<>>
              /\ catArgs.parametrisation = "cdf" =>
                    /\ pErr = "none"
                    /\ \A b \in Batch : pInv[b] = PartialSum(catg.probs[b], pX[b] + 1)

\* inverse after a gumbel_max forward raised.
C7_Witness ==
    /\ pcP = "Categorical" /\ catArgs.parametrisation = "gumbel_max"
    /\ "forward" \in pDone /\ "inverse" \in pDone
    /\ pErr = "NotImplementedError"

(***************************************************************************)
(* C8.  Under 'cdf', forward(u) returns for each batch element, from that  *)
(* element's row and uniform alone, the left-most category whose           *)
(* normalised cumulative probability is >= u; the index is in 0..N-1 and,  *)
(* for one row, does not decrease as u grows.                              *)
(***************************************************************************)
C8_LeftMostCategory ==
    (pcP = "Categorical" /\ catg.parametrisation = "cdf" /\ "forward" \in pDone) =>
        /\ Len(pX) = Len(pU)
        /\ \A b \in Batch :
              /\ pX[b] \in 0..(NCat - 1)
              /\ PartialSum(catg.probs[b], pX[b] + 1) >= pU[b]
              /\ \A j \in 0..(pX[b] - 1) : PartialSum(catg.probs[b], j + 1) < pU[b]
        /\ \A b1, b2 \in Batch :
              (catg.probs[b1] = catg.probs[b2] /\ pU[b1] <= pU[b2]) => pX[b1] <= pX[b2]

\* Two batch elements with the same row: the smaller uniform equals a
\* cumulative probability and gets that category, the larger gets a later one.
C8_Witness ==
    /\ pcP = "Categorical" /\ catg.parametrisation = "cdf" /\ "forward" \in pDone
    /\ catg.probs[1] = catg.probs[2]
    /\ pU[1] < pU[2] /\ pX[1] < pX[2]
    /\ PartialSum(catg.probs[1], pX[1] + 1) = pU[1]
    /\ pX[1] > 0

(***************************************************************************)
(* C9, as stated.  Beta uses the Kumaraswamy quantile for every element    *)
(* where either concentration is exactly 1, array-valued parameters        *)
(* included, and the general Beta quantile for the other elements.         *)
(***************************************************************************)
C9_KumaraswamyElementwise ==
    (pcP = "Beta" /\ "forward" \in pDone) =>
        \A i \in 1..Len(pX) :
            pX[i][1] = (IF ConcAt(beta.concentration0, i) = 1
                           \/ ConcAt(beta.concentration1, i) = 1
                        THEN "Kumaraswamy" ELSE "Beta")

\* Whether a concentration is a Python scalar or a numpy array and all of it is 1.
WholeIsOne(c) == c.kind \in {"scalar", "ndarray"} /\ \A i \in 1..Len(c.vals) : c.vals[i] = 1

(***************************************************************************)
(* C9, amended.  Beta uses the Kumaraswamy quantile, for every element,    *)
(* exactly when concentration0 or concentration1 is a Python scalar equal  *)
(* to 1 or a numpy array all of whose elements are 1; otherwise (an array  *)
(* only some of whose elements are 1, or an array that is not a numpy      *)
(* array) it uses the general Beta quantile for every element.  So the     *)
(* Kumaraswamy quantile is only ever used where a concentration is 1.      *)
(***************************************************************************)
C9_KumaraswamyWhenWholeParameterIsOne ==
    pcP = "Beta" =>
        /\ (beta.dist = "Kumaraswamy") <=>
              (WholeIsOne(beta.concentration0) \/ WholeIsOne(beta.concentration1))
        /\ beta.dist \in {"Kumaraswamy", "Beta"}
        /\ "forward" \in pDone =>
              \A i \in 1..Len(pX) :
                 /\ pX[i][1] = beta.dist
                 /\ pX[i][1] = "Kumaraswamy" =>
                       (ConcAt(beta.concentration0, i) = 1 \/ ConcAt(beta.concentration1, i) = 1)

\* concentration0 = np.array([1, 2]), concentration1 = np.array([2, 2]): the
\* general Beta quantile is used for both elements.
C9_Witness ==
    /\ pcP = "Beta" /\ "forward" \in pDone
    /\ beta.concentration0 = Conc("ndarray", <<1, 2>>)
    /\ beta.concentration1 = Conc("ndarray", <<2, 2>>)
    /\ beta.dist = "Beta"
    /\ \A i \in 1..Len(pX) : pX[i][1] = "Beta"

(***************************************************************************)
(* Claims about the Poisson bisection, checked under SpecPq.               *)
(***************************************************************************)
\* The number of iterations so far that halved the bracket.
Bisections == Cardinality({ i \in 1..Len(pqTrace) : pqTrace[i] = "bisect" })
\* The number of iterations so far that doubled b.
Doublings == Cardinality({ i \in 1..Len(pqTrace) : pqTrace[i] = "double" })

(***************************************************************************)
(* C10, as stated.  The search first doubles b until smooth_cdf(b) covers  *)
(* U and then bisects for the fixed count of 15 iterations.                *)
(***************************************************************************)
C10_FifteenBisections ==
    pcQ = "done" =>
        /\ \A i, j \in 1..Len(pqTrace) :
              (i < j /\ pqTrace[i] = "bisect") => pqTrace[j] = "bisect"
        /\ Bisections = 15

(***************************************************************************)
(* C10, amended.  The scan runs exactly 15 iterations, never fewer and     *)
(* never more; each one either doubles b (while smooth_cdf(b) < U, with a  *)
(* still 0) or halves the bracket; the doublings come first, and the       *)
(* bisection gets the iterations the doubling left: 15 less the number of  *)
(* doublings.                                                              *)
(***************************************************************************)
C10_FifteenIterationsInAll ==
    pcQ \in {"scan", "done"} =>
        /\ Len(pqTrace) = pqI /\ Len(pqResults) = pqI /\ pqI <= 15
        /\ \A i, j \in 1..Len(pqTrace) :
              (i < j /\ pqTrace[i] = "bisect") => pqTrace[j] = "bisect"
        /\ Bisections = 0 => (pqX[1] = 0 /\ pqX[2] = rate_units * Pow(2, Doublings))
        /\ Bisections > 0 => pqX[4] >= pqIn.U
        /\ (Doublings > 0 /\ Bisections = 0) =>
              smooth_cdf(pqIn, pqX[2] \div 2) < pqIn.U
        /\ pcQ = "done" => (pqI = 15 /\ Bisections = 15 - Doublings)

\* A call that doubled three times and then bisected twelve times.
C10_Witness ==
    /\ pcQ = "done"
    /\ Doublings = 3 /\ Bisections = 12
    /\ pqTrace[3] = "double" /\ pqTrace[4] = "bisect"

\* The bracket is sound: 0 <= a <= b and f_a <= U.
BracketSound ==
    /\ 0 <= pqX[1] /\ pqX[1] <= pqX[2]
    /\ pqX[3] <= pqIn.U

\* The iteration doubled b and left a (and f_a) unchanged.
DoubledB ==
    /\ pqX'[1] = pqX[1] /\ pqX'[3] = pqX[3]
    /\ pqX'[2] = 2 * pqX[2]

\* The iteration replaced one end of the bracket by its midpoint.
HalvedBracket ==
    /\ (pqX[2] - pqX[1]) % 2 = 0
    /\ pqX'[2] - pqX'[1] = (pqX[2] - pqX[1]) \div 2
    /\ \/ pqX'[1] = pqX[1] /\ pqX'[2] = pqX[1] + (pqX[2] - pqX[1]) \div 2
       \/ pqX'[2] = pqX[2] /\ pqX'[1] = pqX[1] + (pqX[2] - pqX[1]) \div 2

\* An iteration of the scan has just run.
ScanIterates == pcQ = "scan" /\ pqI' = pqI + 1

(***************************************************************************)
(* C11.  In the bisection state (a, b, f_a, f_b), for a non-decreasing     *)
(* smooth CDF and a target U above the level f_a starts with, every        *)
(* iteration keeps 0 <= a <= b and f_a <= U; each iteration does exactly   *)
(* one of doubling b with a unchanged (when f_b < U) and halving the       *)
(* bracket (when f_b >= U); and once f_b >= U holds it holds after every   *)
(* later iteration, so doubling never resumes after bisection has started. *)
(***************************************************************************)
C11_BracketInvariant ==
    /\ [](pcQ \in {"scan", "done"} => BracketSound)
    /\ [][ScanIterates =>
            /\ (pqX[4] < pqIn.U) <=> DoubledB
            /\ (pqX[4] >= pqIn.U) <=> HalvedBracket
            /\ ~(DoubledB /\ HalvedBracket)
            /\ (pqX[4] >= pqIn.U) => (pqX'[4] >= pqIn.U)
            /\ BracketSound']_vars

\* A scan that doubled b, then bisected and moved both ends of the bracket:
\* a is above 0 with f_a = smooth_cdf(a) <= U, and f_b >= U.
C11_Witness ==
    /\ pcQ = "scan"
    /\ Doublings >= 2 /\ Bisections >= 3
    /\ pqX[1] > 0 /\ pqX[2] < rate_units * Pow(2, Doublings)
    /\ pqX[3] = smooth_cdf(pqIn, pqX[1]) /\ pqX[3] <= pqIn.U
    /\ pqX[4] >= pqIn.U
    /\ BracketSound

====
